---- MODULE Spec2Model ----
(***************************************************************************)
(* The Daemon supervisor of Vincenzo (crates/vincenzo/src/daemon.rs): the  *)
(* internal command channel, the two registries of DaemonCtx, and the      *)
(* command loop of Daemon::run with add_torrent, toggle_pause and quit.    *)
(* Producers (Torrent workers, the CLI, any holder of ctx.tx) post         *)
(* DaemonMsg values on the bounded channel. The Remote Session Handlers of *)
(* listen_remote_msgs and draw run beside the supervisor under SessSpec.   *)
(***************************************************************************)
EXTENDS Naturals, Sequences, FiniteSets

VARIABLES
    quit_after_complete, \* DaemonConfig.quit_after_complete
    torrent_states,      \* DaemonCtx.torrent_states: info_hash -> TorrentState
    torrent_ctxs,        \* DaemonCtx.torrent_ctxs: info_hash -> TorrentCtx
    rx,                  \* the internal mpsc channel of DaemonMsg, oldest first
    pc,                  \* position of Daemon::run
    last,                \* the command run() handled last, its result, its sends
    workers,             \* per info_hash, the Torrent tasks spawned (start modes)
    disk_quits,          \* DiskMsg::Quit sent on disk_tx
    accept_aborted,      \* handle.abort() was called on the accept task
    auto_quits,          \* Quit commands enqueued by the TorrentState arm
    published,           \* info_hashes of the TorrentState commands handled
    posts,               \* inputs so far: commands posted by producers,
                         \* frames read and ticks taken by handlers
    daemon_dropped,      \* the Daemon (and with it the receiver rx) was dropped
    hpc,                 \* per handler, the position of listen_remote_msgs
    inbound,             \* per handler, what its inbound stream has come to
    pending,             \* per handler, the command it is sending on ctx.tx
    oneshot,             \* per handler, the one-shot reply channel it awaits
    reply_frame,         \* per handler, the last reply frame it wrote
    draw_todo,           \* per handler, the entries draw has still to send
    draw_at,             \* per handler, the state registry as of its last tick
    drawn,               \* per handler, the frames draw wrote since that tick
    write_failed,        \* per handler, an outbound write of its has failed
    posted_log,          \* per handler, the commands it posted, in order
    handled_log          \* per handler, its commands run() handled, in order

\* the state of the supervisor and of the channel
dstate == <<quit_after_complete, torrent_states, torrent_ctxs, rx, pc, last,
            workers, disk_quits, accept_aborted, auto_quits, published,
            daemon_dropped>>

\* the same with the count of inputs
dvars == <<dstate, posts>>

\* the state of the Remote Session Handlers, their reply channels apart
hvars == <<hpc, inbound, pending, reply_frame, draw_todo, draw_at, drawn,
           write_failed, posted_log>>

vars == <<dvars, hvars, oneshot, handled_log>>

----------------------------------------------------------------------------
(* Bounds of the model *)

\* capacity of the internal command channel (300 in Daemon::new, scaled)
Capacity == 2

\* inputs over one run: the commands the producers post, the frames the
\* Remote Session Handlers read and the ticks they take
MaxPosts == 3

\* the info_hash values in play
InfoHash == {"h1", "h2"}

\* the control connections the accept loop accepts
Handlers == {"s1"}

----------------------------------------------------------------------------
(* Data *)

\* TorrentStatus::default(), the status of a freshly admitted torrent
DefaultStatus == "Idle"

\* the TorrentStatus values the daemon distinguishes
TorrentStatus == {DefaultStatus, "Downloading", "Seeding"}

\* a TorrentState snapshot
TorrentState == [info_hash : InfoHash, status : TorrentStatus]

\* a parsed magnet link
Magnet == [xt : InfoHash]

\* Magnet::parse_xt
parse_xt(magnet) == magnet.xt

\* the TorrentCtx of the Torrent that add_torrent builds for a magnet
TorrentNew(magnet) == [owner |-> parse_xt(magnet), gen |-> 0]

\* the TorrentCtx values a re-initialised worker hands in with MutateTorrent
ReinitCtx == {[owner |-> h, gen |-> 1] : h \in InfoHash}

\* the values of enum DaemonMsg, each tagged with who enqueued it
\* (by names the sender: a handler, "auto", or "producer" for any other)
DaemonMsgBy(senders) ==
    [type : {"AddTorrent", "AddTorrentWithPeers"}, magnet : Magnet, by : senders]
    \cup [type : {"TorrentState"}, state : TorrentState, by : senders]
    \cup [type : {"RequestTorrentState", "TogglePause"}, info_hash : InfoHash,
          by : senders]
    \cup [type : {"MutateTorrent"}, info_hash : InfoHash, ctx : ReinitCtx,
          by : senders]
    \cup [type : {"PrintTorrentStatus"}, by : senders]
    \cup [type : {"Quit"}, by : senders]

\* the commands of the producers that are not Remote Session Handlers
DaemonMsg == DaemonMsgBy({"producer"})

\* the Quit that the TorrentState arm sends on ctx.tx
AutoQuitMsg == [type |-> "Quit", by |-> "auto"]

\* HashMap::new()
EmptyMap == [k \in {} |-> k]

\* mutant of Insert: the map is rebuilt from the new entry alone
InsertAlone(map, k, v) == [x \in {k} |-> v]

\* mutant of Insert: the entry of a key the map already holds is kept
InsertIfAbsent(map, k, v) ==
    [x \in DOMAIN map \cup {k} |-> IF x \in DOMAIN map THEN map[x] ELSE v]

\* HashMap::insert
Insert(map, k, v) == [x \in DOMAIN map \cup {k} |-> IF x = k THEN v ELSE map[x]]

\* no command
NoMsg == [type |-> "None"]

\* the states of a one-shot reply channel that holds no value: not created,
\* created and awaited, and closed because its sender was dropped
ChanUnused == [chan |-> "unused"]
ChanEmpty == [chan |-> "empty"]
ChanClosed == [chan |-> "closed"]

\* no reply frame written to the socket yet
NoReply == [chan |-> "none"]

\* nothing handled yet
NoLast == [cmd |-> [type |-> "None"], res |-> "None", sent |-> {}]

----------------------------------------------------------------------------
(* Daemon::new and the start of run() *)

Init ==
    /\ quit_after_complete \in BOOLEAN
    /\ torrent_states = EmptyMap
    /\ torrent_ctxs = EmptyMap
    /\ rx = <<>>
    /\ pc = "idle"
    /\ last = NoLast
    /\ workers = [h \in InfoHash |-> <<>>]
    /\ disk_quits = 0
    /\ accept_aborted = FALSE
    /\ auto_quits = 0
    /\ published = {}
    /\ posts = 0
    /\ daemon_dropped = FALSE
    /\ hpc = [h \in Handlers |-> "unconnected"]
    /\ inbound = [h \in Handlers |-> "open"]
    /\ pending = [h \in Handlers |-> NoMsg]
    /\ oneshot = [h \in Handlers |-> ChanUnused]
    /\ reply_frame = [h \in Handlers |-> NoReply]
    /\ draw_todo = [h \in Handlers |-> {}]
    /\ draw_at = [h \in Handlers |-> EmptyMap]
    /\ drawn = [h \in Handlers |-> <<>>]
    /\ write_failed = [h \in Handlers |-> FALSE]
    /\ posted_log = [h \in Handlers |-> <<>>]
    /\ handled_log = [h \in Handlers |-> <<>>]

\* mutant of Send: the command is put at the front of the channel
SendToFront(queue, msg) == <<msg>> \o queue

\* tx.send(msg) on the bounded mpsc channel: the command goes to the back
Send(queue, msg) == Append(queue, msg)

\* a producer's ctx.tx.send(msg).await: completes when the channel has room
Post(msg) ==
    /\ posts < MaxPosts
    /\ ~daemon_dropped
    /\ Len(rx) < Capacity
    /\ rx' = Send(rx, msg)
    /\ posts' = posts + 1
    /\ UNCHANGED <<quit_after_complete, torrent_states, torrent_ctxs, pc, last,
                   workers, disk_quits, accept_aborted, auto_quits, published,
                   daemon_dropped, hvars, oneshot, handled_log>>

\* Some(msg) = self.rx.recv()
Recv(type) ==
    /\ pc = "idle"
    /\ rx # <<>>
    /\ Head(rx).type = type
    /\ rx' = Tail(rx)
    /\ handled_log' = IF Head(rx).by \in Handlers
                      THEN [handled_log EXCEPT ![Head(rx).by] = Append(@, Head(rx))]
                      ELSE handled_log
    /\ UNCHANGED <<daemon_dropped, hvars>>

----------------------------------------------------------------------------
(* The arms of the command loop of Daemon::run *)

\* the handlers that hold a read view of torrent_states: draw keeps its view
\* from torrent_states.read().await until it returns
StatesReaders == {h \in Handlers : hpc[h] = "draw"}

\* torrent_states.write().await completes when no read view is held
CanWriteStates == StatesReaders = {}

\* torrent_states.values().all(|v| v.status == TorrentStatus::Seeding)
AllSeeding(states) == \A h \in DOMAIN states : states[h].status = "Seeding"

\* mutant of AutoQuitCond: the check forgets config.quit_after_complete
AutoQuitCondIgnoringConfig(states) == AllSeeding(states)

\* the condition under which the TorrentState arm sends Quit
AutoQuitCond(states) == quit_after_complete /\ AllSeeding(states)

\* DaemonMsg::TorrentState: upsert, then the auto-quit check. The arm suspends
\* in ctx.tx.send(Quit).await with the write view held when the check passes.
HandleTorrentState ==
    /\ Recv("TorrentState")
    /\ CanWriteStates
    /\ LET s == Head(rx).state
           upserted == Insert(torrent_states, s.info_hash, s)
       IN /\ torrent_states' = upserted
          /\ pc' = IF AutoQuitCond(upserted) THEN "send_quit" ELSE "idle"
          /\ last' = [cmd |-> Head(rx), res |-> "Ok", sent |-> {}]
          /\ published' = published \cup {s.info_hash}
    /\ UNCHANGED <<quit_after_complete, torrent_ctxs, workers, disk_quits,
                   accept_aborted, auto_quits, posts,
                   oneshot>>

\* ctx.tx.send(DaemonMsg::Quit).await completes once the channel has room;
\* then drop(torrent_states) and the arm is over
SendAutoQuit ==
    /\ pc = "send_quit"
    /\ Len(rx) < Capacity
    /\ rx' = Send(rx, AutoQuitMsg)
    /\ auto_quits' = auto_quits + 1
    /\ pc' = "idle"
    /\ UNCHANGED <<quit_after_complete, torrent_states, torrent_ctxs, last,
                   workers, disk_quits, accept_aborted, posts, published,
                   daemon_dropped, hvars, oneshot, handled_log>>

\* mutant of IsDuplicate: add_torrent without the duplicate check
NeverDuplicate(states, info_hash) == FALSE

\* torrent_states.get(&info_hash).is_some() in add_torrent
IsDuplicate(states, info_hash) == info_hash \in DOMAIN states

\* TorrentState { name, info_hash, ..Default::default() }
DefaultState(info_hash) == [info_hash |-> info_hash, status |-> DefaultStatus]

\* mutant of add_torrent: the default TorrentState is not installed
add_torrent_without_state(magnet, mode) ==
    LET info_hash == parse_xt(magnet)
    IN IF info_hash \in DOMAIN torrent_ctxs
       THEN /\ last' = [cmd |-> Head(rx), res |-> "NoDuplicateTorrent", sent |-> {}]
            /\ UNCHANGED <<torrent_states, torrent_ctxs, workers>>
       ELSE /\ torrent_ctxs' = Insert(torrent_ctxs, info_hash, TorrentNew(magnet))
            /\ workers' = [workers EXCEPT ![info_hash] = Append(@, mode)]
            /\ last' = [cmd |-> Head(rx), res |-> "Ok", sent |-> {}]
            /\ UNCHANGED torrent_states

\* mutant of add_torrent: a duplicate is rejected after the state was reset
add_torrent_resetting(magnet, mode) ==
    LET info_hash == parse_xt(magnet)
    IN /\ torrent_states' =
              Insert(torrent_states, info_hash, DefaultState(info_hash))
       /\ IF IsDuplicate(torrent_states, info_hash)
          THEN /\ last' = [cmd |-> Head(rx), res |-> "NoDuplicateTorrent",
                           sent |-> {}]
               /\ UNCHANGED <<torrent_ctxs, workers>>
          ELSE /\ torrent_ctxs' =
                      Insert(torrent_ctxs, info_hash, TorrentNew(magnet))
               /\ workers' = [workers EXCEPT ![info_hash] = Append(@, mode)]
               /\ last' = [cmd |-> Head(rx), res |-> "Ok", sent |-> {}]

\* Daemon::add_torrent(magnet, peers); mode is the start mode of the worker
add_torrent(magnet, mode) ==
    LET info_hash == parse_xt(magnet)
    IN /\ CanWriteStates
       /\ IF IsDuplicate(torrent_states, info_hash)
          THEN /\ last' = [cmd |-> Head(rx), res |-> "NoDuplicateTorrent",
                           sent |-> {}]
               /\ UNCHANGED <<torrent_states, torrent_ctxs, workers>>
          ELSE /\ torrent_states' =
                      Insert(torrent_states, info_hash, DefaultState(info_hash))
               /\ torrent_ctxs' =
                      Insert(torrent_ctxs, info_hash, TorrentNew(magnet))
               /\ workers' = [workers EXCEPT ![info_hash] = Append(@, mode)]
               /\ last' = [cmd |-> Head(rx), res |-> "Ok", sent |-> {}]

\* DaemonMsg::AddTorrent
HandleAddTorrent ==
    /\ Recv("AddTorrent")
    /\ add_torrent(Head(rx).magnet, "start_and_run")
    /\ UNCHANGED <<quit_after_complete, pc, disk_quits, accept_aborted,
                   auto_quits, posts, published,
                   oneshot>>

\* DaemonMsg::AddTorrentWithPeers
HandleAddTorrentWithPeers ==
    /\ Recv("AddTorrentWithPeers")
    /\ add_torrent(Head(rx).magnet, "start_and_run_with_peers")
    /\ UNCHANGED <<quit_after_complete, pc, disk_quits, accept_aborted,
                   auto_quits, posts, published,
                   oneshot>>

\* mutant of Replace: the handle in the registry is left as it was
ReplaceNothing(ctxs, k, ctx) == ctxs

\* *local_ctx = ctx, for the entry get_mut(&info_hash) found
Replace(ctxs, k, ctx) == [ctxs EXCEPT ![k] = ctx]

\* DaemonMsg::MutateTorrent: ctxs.get_mut(&info_hash).unwrap() panics on an
\* info_hash that has no handle
HandleMutateTorrent ==
    /\ Recv("MutateTorrent")
    /\ LET m == Head(rx)
       IN IF m.info_hash \in DOMAIN torrent_ctxs
          THEN /\ torrent_ctxs' = Replace(torrent_ctxs, m.info_hash, m.ctx)
               /\ pc' = "idle"
               /\ last' = [cmd |-> m, res |-> "Ok", sent |-> {}]
          ELSE /\ torrent_ctxs' = torrent_ctxs
               /\ pc' = "panicked"
               /\ last' = [cmd |-> m, res |-> "panic", sent |-> {}]
    /\ UNCHANGED <<quit_after_complete, torrent_states, workers, disk_quits,
                   accept_aborted, auto_quits, posts, published,
                   oneshot>>

\* mutant of TogglePauseSends: the message goes to every registered worker
TogglePauseBroadcast(ctxs, info_hash) ==
    {[to |-> ctxs[h], key |-> h, msg |-> "TogglePause"] : h \in DOMAIN ctxs}

\* the ctx.tx.send(TorrentMsg::TogglePause) calls of toggle_pause
TogglePauseSends(ctxs, info_hash) ==
    IF info_hash \in DOMAIN ctxs
    THEN {[to |-> ctxs[info_hash], key |-> info_hash, msg |-> "TogglePause"]}
    ELSE {}

\* Daemon::toggle_pause; the send fails when the worker dropped its receiver
toggle_pause(info_hash) ==
    \E worker_alive \in BOOLEAN :
        /\ last' = [cmd |-> Head(rx),
                    res |-> IF info_hash \notin DOMAIN torrent_ctxs
                            THEN "TorrentDoesNotExist"
                            ELSE IF worker_alive THEN "Ok" ELSE "SendError",
                    sent |-> TogglePauseSends(torrent_ctxs, info_hash)]

\* DaemonMsg::TogglePause
HandleTogglePause ==
    /\ Recv("TogglePause")
    /\ toggle_pause(Head(rx).info_hash)
    /\ UNCHANGED <<quit_after_complete, torrent_states, torrent_ctxs, pc,
                   workers, disk_quits, accept_aborted, auto_quits, posts, published,
                   oneshot>>

\* torrent_states.get(&info_hash).cloned(): Some(state) or None
Lookup(states, info_hash) ==
    IF info_hash \in DOMAIN states
    THEN [some |-> TRUE, state |-> states[info_hash]]
    ELSE [some |-> FALSE]

\* DaemonMsg::RequestTorrentState: the reply on the one-shot channel
HandleRequestTorrentState ==
    /\ Recv("RequestTorrentState")
    /\ last' = [cmd |-> Head(rx),
                res |-> Lookup(torrent_states, Head(rx).info_hash),
                sent |-> {}]
    /\ oneshot' = IF Head(rx).by \in Handlers
                  THEN [oneshot EXCEPT ![Head(rx).by] =
                            Lookup(torrent_states, Head(rx).info_hash)]
                  ELSE oneshot
    /\ UNCHANGED <<quit_after_complete, torrent_states, torrent_ctxs, pc,
                   workers, disk_quits, accept_aborted, auto_quits, posts, published>>

\* DaemonMsg::PrintTorrentStatus: "Showing stats of {} torrents."
HandlePrintTorrentStatus ==
    /\ Recv("PrintTorrentStatus")
    /\ last' = [cmd |-> Head(rx),
                res |-> Cardinality(DOMAIN torrent_states),
                sent |-> {}]
    /\ UNCHANGED <<quit_after_complete, torrent_states, torrent_ctxs, pc,
                   workers, disk_quits, accept_aborted, auto_quits, posts, published,
                   oneshot>>

\* mutant of QuitSends: only the first torrent of the registry is told to quit
QuitSendsFirstOnly(ctxs) ==
    IF DOMAIN ctxs = {}
    THEN {}
    ELSE LET h == CHOOSE k \in DOMAIN ctxs : TRUE
         IN {[to |-> ctxs[h], key |-> h, msg |-> "Quit"]}

\* the tasks Daemon::quit spawns, one ctx.1.tx.send(TorrentMsg::Quit) each
QuitSends(ctxs) ==
    {[to |-> ctxs[h], key |-> h, msg |-> "Quit"] : h \in DOMAIN ctxs}

\* the position of run() after the Quit arm: break
AfterQuit == "done"

\* DaemonMsg::Quit: self.quit(), handle.abort(), break
HandleQuit ==
    /\ Recv("Quit")
    /\ last' = [cmd |-> Head(rx), res |-> "Ok", sent |-> QuitSends(torrent_ctxs)]
    /\ disk_quits' = disk_quits + 1
    /\ accept_aborted' = TRUE
    /\ pc' = AfterQuit
    /\ UNCHANGED <<quit_after_complete, torrent_states, torrent_ctxs, workers,
                   auto_quits, posts, published,
                   oneshot>>

\* one step of the task that runs Daemon::run
Supervisor ==
    \/ HandleTorrentState
    \/ SendAutoQuit
    \/ HandleAddTorrent
    \/ HandleAddTorrentWithPeers
    \/ HandleMutateTorrent
    \/ HandleTogglePause
    \/ HandleRequestTorrentState
    \/ HandlePrintTorrentStatus
    \/ HandleQuit

\* one step of a producer
Producer == \E msg \in DaemonMsg : Post(msg)

Next == Supervisor \/ Producer

Spec == Init /\ [][Next]_vars

\* the runtime schedules the supervisor task whenever it can take a step
FairSpec == Spec /\ WF_vars(Supervisor)

----------------------------------------------------------------------------
(* The Remote Session Handlers: the accept loop of run(), listen_remote_msgs *)
(* and draw                                                                 *)

\* the magnet links a client sends: one per info_hash, and one that does not
\* parse
MagnetLink == InfoHash \cup {"invalid"}

\* Magnet::new(&magnet_link): Ok(magnet) or Err
MagnetNew(link) ==
    IF link \in InfoHash THEN [ok |-> TRUE, magnet |-> [xt |-> link]]
                         ELSE [ok |-> FALSE]

\* the frames of the control protocol a handler can read (daemon_wire::Message)
Message ==
    [type : {"NewTorrent"}, link : MagnetLink]
    \cup [type : {"RequestTorrentState", "TogglePause"}, info_hash : InfoHash]
    \cup [type : {"Quit", "PrintTorrentStatus", "TorrentState"}]

\* the match of listen_remote_msgs: the command handler h sends for a frame,
\* NoMsg for a magnet link that does not parse and for the `_ => {}` arm
Translate(h, frame) ==
    CASE frame.type = "NewTorrent" ->
            IF MagnetNew(frame.link).ok
            THEN [type |-> "AddTorrent", magnet |-> MagnetNew(frame.link).magnet,
                  by |-> h]
            ELSE NoMsg
      [] frame.type \in {"RequestTorrentState", "TogglePause"} ->
            [type |-> frame.type, info_hash |-> frame.info_hash, by |-> h]
      [] frame.type \in {"Quit", "PrintTorrentStatus"} ->
            [type |-> frame.type, by |-> h]
      [] OTHER -> NoMsg

\* socket.accept() in the accept loop: a handler task is spawned for the
\* connection; the loop runs until handle.abort()
Accept(h) ==
    /\ ~accept_aborted
    /\ pc # "panicked"
    /\ hpc[h] = "unconnected"
    /\ hpc' = [hpc EXCEPT ![h] = "select"]
    /\ UNCHANGED <<dvars, inbound, pending, reply_frame, draw_todo, draw_at,
                   drawn, write_failed, posted_log, oneshot,
                   handled_log>>

\* Some(Ok(msg)) = stream.next(): the frame is matched; the handler then
\* sends the command, if the frame has one
ReadFrame(h, frame) ==
    /\ hpc[h] = "select"
    /\ inbound[h] = "open"
    /\ posts < MaxPosts
    /\ posts' = posts + 1
    /\ IF Translate(h, frame) = NoMsg
       THEN UNCHANGED <<hpc, pending>>
       ELSE /\ hpc' = [hpc EXCEPT ![h] = "post"]
            /\ pending' = [pending EXCEPT ![h] = Translate(h, frame)]
    /\ UNCHANGED <<dstate, inbound, reply_frame, draw_todo, draw_at, drawn,
                   write_failed, posted_log, oneshot, handled_log>>

\* ctx.tx.send(cmd).await of a handler: completes when the channel has room,
\* fails at once (the error is ignored) when the receiver is gone. After a
\* RequestTorrentState the handler awaits the reply.
PostPending(h) ==
    /\ hpc[h] = "post"
    /\ pending' = [pending EXCEPT ![h] = NoMsg]
    /\ IF daemon_dropped
       THEN /\ hpc' = [hpc EXCEPT ![h] =
                        IF pending[h].type = "RequestTorrentState"
                        THEN "returned" ELSE "select"]
            /\ UNCHANGED <<rx, posted_log, oneshot>>
       ELSE /\ Len(rx) < Capacity
            /\ rx' = Send(rx, pending[h])
            /\ posted_log' = [posted_log EXCEPT ![h] = Append(@, pending[h])]
            /\ IF pending[h].type = "RequestTorrentState"
               THEN /\ hpc' = [hpc EXCEPT ![h] = "await_reply"]
                    /\ oneshot' = [oneshot EXCEPT ![h] = ChanEmpty]
               ELSE /\ hpc' = [hpc EXCEPT ![h] = "select"]
                    /\ UNCHANGED oneshot
    /\ UNCHANGED <<quit_after_complete, torrent_states, torrent_ctxs, pc, last,
                   workers, disk_quits, accept_aborted, auto_quits, published,
                   posts, daemon_dropped, inbound, reply_frame, draw_todo,
                   draw_at, drawn, write_failed, handled_log>>

\* let r = rx.await?: the reply arrives, or the sender was dropped and the
\* handler returns the error
AwaitReply(h) ==
    /\ hpc[h] = "await_reply"
    /\ oneshot[h] # ChanEmpty
    /\ hpc' = [hpc EXCEPT ![h] =
                 IF oneshot[h] = ChanClosed THEN "returned" ELSE "reply_write"]
    /\ UNCHANGED <<dvars, inbound, pending, reply_frame, draw_todo, draw_at,
                   drawn, write_failed, posted_log, oneshot,
                   handled_log>>

\* let _ = sink.send(Message::TorrentState(r)).await: ok tells whether the
\* write succeeded; the result is ignored
ReplyWrite(h, ok) ==
    /\ hpc[h] = "reply_write"
    /\ hpc' = [hpc EXCEPT ![h] = "select"]
    /\ oneshot' = [oneshot EXCEPT ![h] = ChanUnused]
    /\ IF ok
       THEN /\ reply_frame' = [reply_frame EXCEPT ![h] = oneshot[h]]
            /\ UNCHANGED write_failed
       ELSE /\ write_failed' = [write_failed EXCEPT ![h] = TRUE]
            /\ UNCHANGED reply_frame
    /\ UNCHANGED <<dvars, inbound, pending, draw_todo, draw_at, drawn,
                   posted_log, handled_log>>

\* mutant of DrawEntries: draw leaves out the torrents that are seeding
DrawEntriesNotSeeding(states) ==
    {k \in DOMAIN states : states[k].status # "Seeding"}

\* the entries draw iterates: torrent_states.values()
DrawEntries(states) == DOMAIN states

\* Message::TorrentState(Some(state)) for the entry under k
DrawFrame(states, k) == [some |-> TRUE, state |-> states[k]]

\* _ = draw_interval.tick(): draw takes a read view of torrent_states, which
\* waits while the supervisor holds the write view, and starts to iterate
Tick(h) ==
    /\ hpc[h] = "select"
    /\ posts < MaxPosts
    /\ pc # "send_quit"
    /\ posts' = posts + 1
    /\ draw_at' = [draw_at EXCEPT ![h] = torrent_states]
    /\ drawn' = [drawn EXCEPT ![h] = <<>>]
    /\ draw_todo' = [draw_todo EXCEPT ![h] = DrawEntries(torrent_states)]
    /\ hpc' = [hpc EXCEPT ![h] =
                 IF DrawEntries(torrent_states) = {} THEN "select" ELSE "draw"]
    /\ UNCHANGED <<dstate, inbound, pending, reply_frame, write_failed,
                   posted_log, oneshot, handled_log>>

\* one sink.send(Message::TorrentState(Some(state))).await of draw, for the
\* entry under k: when the write fails draw returns SendErrorTcp, which
\* listen_remote_msgs ignores; the view is dropped when draw returns
DrawSend(h, k, ok) ==
    /\ hpc[h] = "draw"
    /\ k \in draw_todo[h]
    /\ IF ok
       THEN /\ drawn' = [drawn EXCEPT ![h] = Append(@, DrawFrame(torrent_states, k))]
            /\ draw_todo' = [draw_todo EXCEPT ![h] = @ \ {k}]
            /\ hpc' = [hpc EXCEPT ![h] =
                         IF draw_todo[h] = {k} THEN "select" ELSE "draw"]
            /\ UNCHANGED write_failed
       ELSE /\ write_failed' = [write_failed EXCEPT ![h] = TRUE]
            /\ draw_todo' = [draw_todo EXCEPT ![h] = {}]
            /\ hpc' = [hpc EXCEPT ![h] = "select"]
            /\ UNCHANGED drawn
    /\ UNCHANGED <<dvars, inbound, pending, reply_frame, draw_at, posted_log, oneshot, handled_log>>

\* what stream.next() yields at the end of the inbound stream: None at EOF,
\* Some(Err(_)) for a frame that does not decode and for a socket error
StreamEnd == {"None", "Err"}

\* stream.next() yields None or Some(Err(_)): the pattern Some(Ok(msg)) does
\* not match, select! disables the branch and goes on waiting for the tick;
\* the loop has no exit here
StreamEnds(h, how) ==
    /\ hpc[h] = "select"
    /\ inbound[h] = "open"
    /\ inbound' = [inbound EXCEPT ![h] = how]
    /\ UNCHANGED <<dvars, hpc, pending, reply_frame, draw_todo, draw_at, drawn,
                   write_failed, posted_log, oneshot,
                   handled_log>>

\* the owner of the Daemon drops it once run() is over: the receiver goes,
\* and with it the queued commands and the reply senders they carry
DropDaemon ==
    /\ pc \in {"done", "panicked"}
    /\ ~daemon_dropped
    /\ daemon_dropped' = TRUE
    /\ rx' = <<>>
    /\ oneshot' = [h \in Handlers |->
                     IF oneshot[h] = ChanEmpty THEN ChanClosed ELSE oneshot[h]]
    /\ UNCHANGED <<quit_after_complete, torrent_states, torrent_ctxs, pc, last,
                   workers, disk_quits, accept_aborted, auto_quits, published,
                   posts, hvars, handled_log>>

\* one step of the task of handler h
Handler(h) ==
    \/ \E frame \in Message : ReadFrame(h, frame)
    \/ PostPending(h)
    \/ AwaitReply(h)
    \/ \E ok \in BOOLEAN : ReplyWrite(h, ok)
    \/ Tick(h)
    \/ \E k \in InfoHash, ok \in BOOLEAN : DrawSend(h, k, ok)
    \/ \E how \in StreamEnd : StreamEnds(h, how)

\* the commands that no frame of the control protocol translates to: they
\* come from the Torrent workers and from callers in the daemon binary
LocalMsg ==
    {m \in DaemonMsg : m.type \in {"TorrentState", "MutateTorrent",
                                   "AddTorrentWithPeers"}}

\* one step of a producer that is not a Remote Session Handler
LocalProducer == \E msg \in LocalMsg : Post(msg)

SessNext ==
    \/ Supervisor
    \/ LocalProducer
    \/ DropDaemon
    \/ \E h \in Handlers : Accept(h)
    \/ \E h \in Handlers : Handler(h)

\* the supervisor with the accept loop, the handlers and the local producers
SessSpec == Init /\ [][SessNext]_vars

\* the runtime schedules the supervisor task and every handler task whenever
\* it can take a step of its own (a send for which the channel has room, a
\* reply that has arrived, a write of the reply), and the owner of the Daemon
\* drops it once run() is over
FairSessSpec ==
    /\ SessSpec
    /\ WF_vars(Supervisor)
    /\ WF_vars(DropDaemon)
    /\ \A h \in Handlers :
          /\ WF_vars(PostPending(h))
          /\ WF_vars(AwaitReply(h))
          /\ WF_vars(\E ok \in BOOLEAN : ReplyWrite(h, ok))

----------------------------------------------------------------------------
(* Vocabulary of the properties *)

\* the info_hashes a successful add_torrent admitted
Admitted == {h \in InfoHash : workers[h] # <<>>}

\* run() is between two commands, or has returned
CommandCompleted == pc \in {"idle", "done"}

\* the step in which run() receives and handles a command of this type
Handles(type) ==
    /\ pc = "idle"
    /\ rx # <<>>
    /\ Head(rx).type = type
    /\ rx' = Tail(rx)
    /\ last'.cmd = Head(rx)

----------------------------------------------------------------------------
(* C1: after each command completes, the state registry and the handle     *)
(* registry have the same set of info_hash keys.                           *)
C1_KeySetsAgree ==
    CommandCompleted => DOMAIN torrent_states = DOMAIN torrent_ctxs

(* C2: for every info_hash at most one worker is ever spawned, and an      *)
(* AddTorrent/AddTorrentWithPeers handled after a successful one for the   *)
(* same info_hash fails with NoDuplicateTorrent and spawns nothing.        *)
C2_AtMostOneAdmission ==
    [][/\ \A h \in InfoHash : Len(workers'[h]) <= 1
       /\ \A type \in {"AddTorrent", "AddTorrentWithPeers"} :
            (Handles(type) /\ Head(rx).magnet.xt \in Admitted)
                => /\ last'.res = "NoDuplicateTorrent"
                   /\ workers' = workers]_vars

\* a second AddTorrent for an admitted info_hash was rejected
C2_Witness ==
    /\ last.cmd.type \in {"AddTorrent", "AddTorrentWithPeers"}
    /\ last.res = "NoDuplicateTorrent"
    /\ Len(workers[last.cmd.magnet.xt]) = 1

(* C3: a RequestTorrentState for an admitted info_hash replies Some(state) *)
(* with state.info_hash the requested hash; the state is the default state *)
(* while no TorrentState for that hash has been handled.                   *)
C3_AdmittedIsKnown ==
    LET h == last.cmd.info_hash
    IN (last.cmd.type = "RequestTorrentState" /\ h \in Admitted)
        => /\ last.res.some
           /\ last.res.state.info_hash = h
           /\ h \notin published =>
                last.res.state = [info_hash |-> h, status |-> DefaultStatus]

\* the default state was replied for an admitted, not yet published torrent
C3_Witness ==
    /\ last.cmd.type = "RequestTorrentState"
    /\ last.cmd.info_hash \in Admitted \ published
    /\ last.res.some

(* C4: a RequestTorrentState for an info_hash that was never admitted      *)
(* replies None, whatever commands were handled before it.                 *)
C4_NeverAdmittedIsNone ==
    (last.cmd.type = "RequestTorrentState" /\ last.cmd.info_hash \notin Admitted)
        => ~last.res.some

(* C5: with quit_after_complete and an admitted torrent, once an upsert    *)
(* leaves every entry Seeding, exactly one Quit has been enqueued by the   *)
(* auto-quit logic over the whole run.                                     *)
C5_ExactlyOneAutoQuit ==
    (quit_after_complete /\ Admitted # {})
        => /\ auto_quits <= 1
           /\ (pc = "idle" /\ last.cmd.type = "TorrentState"
                 /\ AllSeeding(torrent_states)) => auto_quits = 1

(* C6: with quit_after_complete, the auto-quit logic enqueues no Quit and  *)
(* does not decide to while no torrent has been admitted.                  *)
C6_NoAutoQuitBeforeAdmission ==
    (quit_after_complete /\ Admitted = {})
        => (auto_quits = 0 /\ pc # "send_quit")

(* C7: with quit_after_complete = false the TorrentState arm never         *)
(* enqueues Quit: every Quit on the channel was posted by a producer.      *)
C7_NoAutoQuitWhenDisabled ==
    ~quit_after_complete
        => /\ auto_quits = 0
           /\ pc # "send_quit"
           /\ \A i \in 1..Len(rx) : rx[i].type = "Quit" => rx[i].by # "auto"

\* auto-quit is off and an upsert left every entry of the registry Seeding
C7_Witness ==
    /\ ~quit_after_complete
    /\ last.cmd.type = "TorrentState"
    /\ Admitted # {}
    /\ AllSeeding(torrent_states)

(* C8: handling Quit dispatches one TorrentMsg::Quit per handle of the     *)
(* handle registry, sends one DiskMsg::Quit, aborts the accept task and    *)
(* returns from run(); nothing is handled after it.                        *)
C8_QuitTearsDown ==
    /\ (last.cmd.type = "Quit") <=> (pc = "done")
    /\ pc = "done"
        => /\ \A h \in DOMAIN torrent_ctxs :
                 Cardinality({s \in last.sent :
                     s.key = h /\ s.to = torrent_ctxs[h] /\ s.msg = "Quit"}) = 1
           /\ Cardinality(last.sent) = Cardinality(DOMAIN torrent_ctxs)
           /\ disk_quits = 1
           /\ accept_aborted
    /\ pc # "done" => (disk_quits = 0 /\ ~accept_aborted)

\* Quit was handled with two torrents registered
C8_Witness ==
    /\ pc = "done"
    /\ Cardinality(DOMAIN torrent_ctxs) = 2
    /\ Cardinality(last.sent) = 2

\* run() returned with a torrent registered and a command still queued
C8_WitnessPending ==
    /\ pc = "done"
    /\ torrent_ctxs # EmptyMap
    /\ rx # <<>>

(* C9: with quit_after_complete and an admitted torrent, after an upsert   *)
(* that leaves every entry Seeding, run() eventually returns, and a worker *)
(* Quit has then been dispatched for every admitted torrent.               *)
C9_AutoQuitTerminates ==
    (quit_after_complete /\ Admitted # {} /\ pc = "send_quit")
        ~> (pc = "done" /\ \A h \in Admitted : \E s \in last.sent : s.key = h)

(* C10: handling TogglePause(info_hash) sends one TorrentMsg::TogglePause  *)
(* to the handle registered under info_hash and nothing else; for an       *)
(* info_hash without a handle it sends nothing and toggle_pause returns    *)
(* TorrentDoesNotExist. Either way both registries are unchanged and run() *)
(* goes on with the next command.                                          *)
C10_TogglePauseDispatch ==
    [][Handles("TogglePause") =>
         LET h == Head(rx).info_hash
         IN /\ IF h \in DOMAIN torrent_ctxs
               THEN /\ last'.sent = {[to |-> torrent_ctxs[h], key |-> h,
                                      msg |-> "TogglePause"]}
                    /\ last'.res \in {"Ok", "SendError"}
               ELSE /\ last'.sent = {}
                    /\ last'.res = "TorrentDoesNotExist"
            /\ UNCHANGED <<torrent_states, torrent_ctxs>>
            /\ pc' = "idle"]_vars

\* a TogglePause was dispatched while two torrents held a handle
C10_Witness ==
    /\ last.cmd.type = "TogglePause"
    /\ Cardinality(DOMAIN torrent_ctxs) = 2
    /\ Cardinality(last.sent) = 1

\* a TogglePause for an unknown info_hash was handled beside a live torrent
C10_WitnessUnknown ==
    /\ last.cmd.type = "TogglePause"
    /\ last.res = "TorrentDoesNotExist"
    /\ torrent_ctxs # EmptyMap
    /\ pc = "idle"

(* C11: an AddTorrent/AddTorrentWithPeers for an info_hash the state       *)
(* registry already holds is rejected with NoDuplicateTorrent, and a       *)
(* rejected one leaves both registries as they were (the snapshot is not   *)
(* reset, the handle is kept) and spawns no worker.                        *)
C11_RejectionChangesNothing ==
    [][\A type \in {"AddTorrent", "AddTorrentWithPeers"} :
         Handles(type) =>
            LET h == Head(rx).magnet.xt
            IN /\ h \in DOMAIN torrent_states
                    => last'.res = "NoDuplicateTorrent"
               /\ last'.res = "NoDuplicateTorrent"
                    => /\ h \in DOMAIN torrent_states
                       /\ torrent_states' = torrent_states
                       /\ torrent_ctxs' = torrent_ctxs
                       /\ workers' = workers]_vars

\* a duplicate was rejected while the registry held a published snapshot
C11_Witness ==
    /\ last.cmd.type \in {"AddTorrent", "AddTorrentWithPeers"}
    /\ last.res = "NoDuplicateTorrent"
    /\ last.cmd.magnet.xt \in DOMAIN torrent_ctxs
    /\ torrent_states[last.cmd.magnet.xt].status # DefaultStatus

(* C16: handling MutateTorrent for an info_hash that has no handle is a    *)
(* no-op: the registries are unchanged, run() does not crash and goes on   *)
(* to the next command.                                                    *)
C16_UnknownMutateIsNoOp ==
    [][(Handles("MutateTorrent") /\ Head(rx).info_hash \notin DOMAIN torrent_ctxs)
          => /\ pc' = "idle"
             /\ UNCHANGED <<torrent_states, torrent_ctxs>>]_vars

(* C17: the key set of the state registry only grows: no command, Quit     *)
(* included, removes an entry.                                             *)
C17_StateKeysOnlyGrow ==
    [][DOMAIN torrent_states \subseteq DOMAIN torrent_states']_vars

\* an upsert was handled while the registry held two entries
C17_Witness ==
    /\ last.cmd.type = "TorrentState"
    /\ Cardinality(DOMAIN torrent_states) = 2
    /\ Admitted # {}

(* C18: every info_hash with a handle in the handle registry has an entry  *)
(* in the state registry whose info_hash field is that key.                *)
C18_HandleHasState ==
    \A h \in DOMAIN torrent_ctxs :
        /\ h \in DOMAIN torrent_states
        /\ torrent_states[h].info_hash = h

\* two handles are registered and one of the states was published
C18_Witness ==
    /\ Cardinality(DOMAIN torrent_ctxs) = 2
    /\ published \cap DOMAIN torrent_ctxs # {}
    /\ CommandCompleted

----------------------------------------------------------------------------
(* The Remote Session Handlers *)

\* the info_hashes of the frames in a sequence of TorrentState frames
FrameKeys(fs) == {fs[i].state.info_hash : i \in 1..Len(fs)}

\* C12: once the inbound stream of a Remote Session Handler has yielded a
\* decode error, a socket error or EOF, the handler emits no further frame
\* and posts no further command
C12_EndedStreamEndsHandler ==
    [][\A h \in Handlers :
          inbound[h] # "open"
             => /\ drawn'[h] = drawn[h]
                /\ posted_log'[h] = posted_log[h]
                /\ hpc'[h] \in {hpc[h], "returned"}]_vars

\* C13: once an outbound write of a Remote Session Handler has failed, the
\* handler attempts no further write: it enters neither draw's loop nor the
\* write of a reply
C13_FailedWriteDropsSession ==
    [][\A h \in Handlers :
          write_failed[h] => hpc'[h] \notin {"draw", "reply_write"}]_vars

\* C14: after the Supervisor has handled Quit, no Remote Session Handler takes
\* a further step: it writes no frame and posts no command
C14_NoHandlerStepAfterQuit ==
    [][pc = "done"
          => \A h \in Handlers :
                /\ hpc'[h] = hpc[h]
                /\ drawn'[h] = drawn[h]
                /\ posted_log'[h] = posted_log[h]]_vars

\* C15: no Remote Session Handler holds a read view of the state registry
\* while it is suspended in a socket write, so whenever the Supervisor is
\* idle and a command is pending the Supervisor can handle it
C15_SupervisorNeverWaitsForClient ==
    (pc = "idle" /\ rx # <<>>) => ENABLED Supervisor

\* C19: the commands of a Remote Session Handler that the Supervisor has
\* handled are, in order, the first commands that handler posted
C19_PerProducerFifo ==
    \A h \in Handlers :
        /\ Len(handled_log[h]) <= Len(posted_log[h])
        /\ handled_log[h] = SubSeq(posted_log[h], 1, Len(handled_log[h]))

\* the Supervisor has handled two different commands of one handler, and then
\* the command of another producer
C19_Witness ==
    \E h \in Handlers :
        /\ Len(handled_log[h]) = 2
        /\ handled_log[h][1].type # handled_log[h][2].type
        /\ last.cmd.by = "producer"

\* two commands of one handler wait in the channel together
C19_WitnessQueued ==
    \E h \in Handlers :
        /\ Len(rx) = 2
        /\ rx[1].by = h /\ rx[2].by = h
        /\ rx[1] # rx[2]

\* C20: the frames a tick has written are TorrentState(Some(state)) frames of
\* different entries of the state registry as of that tick, each equal to
\* the entry; as long as no write has failed, these and the entries still to
\* be written are exactly the entries of the registry as of that tick, so a
\* finished tick has written exactly one frame per entry
C20_OneFramePerEntry ==
    \A h \in Handlers :
        /\ \A i \in 1..Len(drawn[h]) :
              /\ drawn[h][i].state.info_hash \in DOMAIN draw_at[h]
              /\ drawn[h][i] =
                    [some |-> TRUE,
                     state |-> draw_at[h][drawn[h][i].state.info_hash]]
        /\ Cardinality(FrameKeys(drawn[h])) = Len(drawn[h])
        /\ FrameKeys(drawn[h]) \cap draw_todo[h] = {}
        /\ ~write_failed[h]
              => FrameKeys(drawn[h]) \cup draw_todo[h] = DOMAIN draw_at[h]

\* a tick over a registry of two entries, one of them seeding, has finished
\* with every write successful
C20_Witness ==
    \E h \in Handlers :
        /\ hpc[h] = "select"
        /\ ~write_failed[h]
        /\ draw_todo[h] = {}
        /\ Len(drawn[h]) = 2
        /\ \E i \in 1..2 : drawn[h][i].state.status = "Seeding"

----------------------------------------------------------------------------
(* The effects of TorrentState and MutateTorrent, and the auto-quit enqueue *)

\* C22: handling TorrentState(s) leaves the state registry mapping
\* s.info_hash to s, whatever it held for that info_hash before, with every
\* other entry and the handle registry as they were
C22_UpsertEffect ==
    [][Handles("TorrentState") =>
         LET s == Head(rx).state
         IN /\ DOMAIN torrent_states' = DOMAIN torrent_states \cup {s.info_hash}
            /\ torrent_states'[s.info_hash] = s
            /\ \A k \in DOMAIN torrent_states \ {s.info_hash} :
                  torrent_states'[k] = torrent_states[k]
            /\ torrent_ctxs' = torrent_ctxs]_vars

\* a TorrentState replaced the snapshot of an admitted torrent, beside the
\* entry of another torrent
C22_Witness ==
    /\ last.cmd.type = "TorrentState"
    /\ last.cmd.state.info_hash \in Admitted
    /\ last.cmd.state.status # DefaultStatus
    /\ torrent_states[last.cmd.state.info_hash] = last.cmd.state
    /\ Cardinality(DOMAIN torrent_states) = 2

\* C23: handling MutateTorrent(info_hash, new_ctx) for a registered
\* info_hash leaves the handle registry mapping info_hash to new_ctx, with
\* the key sets of both registries and the state registry as they were; no
\* other command changes the handle of a registered info_hash; and every
\* TogglePause and the Quit broadcast are sent to the handles the registry
\* holds when they are handled, so never to a replaced one
C23_MutateReplacesHandle ==
    [][/\ (Handles("MutateTorrent") /\ Head(rx).info_hash \in DOMAIN torrent_ctxs)
          => /\ torrent_ctxs'[Head(rx).info_hash] = Head(rx).ctx
             /\ DOMAIN torrent_ctxs' = DOMAIN torrent_ctxs
             /\ torrent_states' = torrent_states
       /\ \A h \in DOMAIN torrent_ctxs :
             /\ h \in DOMAIN torrent_ctxs'
             /\ torrent_ctxs'[h] # torrent_ctxs[h]
                   => (Handles("MutateTorrent") /\ Head(rx).info_hash = h)
       /\ (Handles("TogglePause") \/ Handles("Quit"))
          => \A m \in last'.sent :
                /\ m.key \in DOMAIN torrent_ctxs
                /\ m.to = torrent_ctxs[m.key]]_vars

\* a TogglePause or the Quit broadcast went to a handle that MutateTorrent
\* had put in the place of the one add_torrent registered
C23_Witness ==
    /\ last.cmd.type \in {"TogglePause", "Quit"}
    /\ \E m \in last.sent :
          /\ m.to \in ReinitCtx
          /\ m.to # TorrentNew([xt |-> m.key])
          /\ m.to = torrent_ctxs[m.key]

\* C24: whenever the TorrentState arm is about to enqueue the auto-quit, the
\* channel has room for it, so the enqueue completes and the arm ends
C24_AutoQuitEnqueueCompletes ==
    pc = "send_quit" => Len(rx) < Capacity

----------------------------------------------------------------------------
(* The reply to RequestTorrentState *)

\* C21: a RequestTorrentState frame a handler has read leads to the reply
\* reaching the handler, which then writes it as a TorrentState frame
C21_RequestIsAnswered ==
    \A h \in Handlers :
        (hpc[h] = "post" /\ pending[h].type = "RequestTorrentState")
            ~> (hpc[h] = "reply_write")

============================================================================
